---- MODULE Spec2Model ----
(***************************************************************************)
(* MCP Monkey: the tool registry of MainWindow (servers/<name>/config.json *)
(* files, the in-memory current_server, the two list widgets), the server  *)
(* lifecycle, the step interpreter built by create_mcp_tool and the shared *)
(* SeleniumManager session.                                                *)
(*                                                                         *)
(* Text is modelled as a sequence of tokens (characters or words), so that *)
(* strip, split, startswith and the JSON text of a configuration are       *)
(* computed rather than assumed.                                           *)
(***************************************************************************)
EXTENDS Integers, Sequences, FiniteSets, TLC

\* ---------------------------------------------------------------- bounds
MaxTools == 2
MaxUiRuns == 1

\* ------------------------------------------------------------ vocabulary
LoadPageT == "Load Page"
ExecPyT == "Execute Python"
ExecJsT == "Execute JavaScript"
ReturnT == "Return Data"
ReplT == "Python REPL"

\* the items of the cell-type combo box
CellTypes == {LoadPageT, ExecPyT, ExecJsT, ReturnT, ReplT}

\* Python's None, as a value of the model
None == "None"

\* ------------------------------------------------------- sequence helpers
Range(s) == {s[i] : i \in 1..Len(s)}

RECURSIVE SelectSeqBy(_, _)
\* [x for x in s if x \in keep]
SelectSeqBy(s, keep) ==
  IF s = <<>> THEN <<>>
  ELSE IF Head(s) \in keep THEN <<Head(s)>> \o SelectSeqBy(Tail(s), keep)
       ELSE SelectSeqBy(Tail(s), keep)

\* ------------------------------------------------- str.strip / str.split
RECURSIVE LStrip(_)
LStrip(s) == IF s # <<>> /\ Head(s) = " " THEN LStrip(Tail(s)) ELSE s

RECURSIVE RStrip(_)
RStrip(s) ==
  IF s # <<>> /\ s[Len(s)] = " " THEN RStrip(SubSeq(s, 1, Len(s) - 1)) ELSE s

\* str.strip()
Strip(s) == RStrip(LStrip(s))

RECURSIVE SplitAcc(_, _)
\* text.split(","): the pieces between commas, empty pieces included
SplitAcc(s, cur) ==
  IF s = <<>> THEN <<cur>>
  ELSE IF Head(s) = "," THEN <<cur>> \o SplitAcc(Tail(s), <<>>)
       ELSE SplitAcc(Tail(s), Append(cur, Head(s)))

SplitComma(s) == SplitAcc(s, <<>>)

RECURSIVE StripNonEmpty(_)
\* [arg.strip() for arg in pieces if arg.strip()]
StripNonEmpty(pieces) ==
  IF pieces = <<>> THEN <<>>
  ELSE IF Strip(Head(pieces)) # <<>>
       THEN <<Strip(Head(pieces))>> \o StripNonEmpty(Tail(pieces))
       ELSE StripNonEmpty(Tail(pieces))

ParseArgs(text) == StripNonEmpty(SplitComma(text))

\* ------------------------------------------ sorted(cells, key=order)
RECURSIVE InsertByOrder(_, _)
\* c goes after every element whose order is <= its own (stable)
InsertByOrder(c, s) ==
  IF s = <<>> THEN <<c>>
  ELSE IF Head(s).order <= c.order THEN <<Head(s)>> \o InsertByOrder(c, Tail(s))
       ELSE <<c>> \o s

RECURSIVE SortedCells(_)
SortedCells(cells) ==
  IF cells = <<>> THEN <<>>
  ELSE InsertByOrder(cells[Len(cells)], SortedCells(SubSeq(cells, 1, Len(cells) - 1)))

\* ------------------------------------------------ json.dump / json.load
\* The text of config.json as its sequence of lexical tokens <<kind, payload>>:
\* punctuation, member names, string literals (payload: the text) and number
\* literals (payload: the decimal digits).
DigitChars == <<"0", "1", "2", "3", "4", "5", "6", "7", "8", "9">>

RECURSIVE IntToDigits_Reversed(_)
\* IntToDigits with the digits least significant first
IntToDigits_Reversed(n) ==
  IF n < 10 THEN <<DigitChars[n + 1]>>
  ELSE <<DigitChars[(n % 10) + 1]>> \o IntToDigits_Reversed(n \div 10)

RECURSIVE IntToDigits(_)
\* an int as json.dump writes it
IntToDigits(n) ==
  IF n < 10 THEN <<DigitChars[n + 1]>>
  ELSE IntToDigits(n \div 10) \o <<DigitChars[(n % 10) + 1]>>

DigitVal(c) == CHOOSE d \in 0..9 : DigitChars[d + 1] = c

RECURSIVE DigitsToInt(_)
DigitsToInt(ds) ==
  IF Len(ds) = 1 THEN DigitVal(ds[1])
  ELSE 10 * DigitsToInt(SubSeq(ds, 1, Len(ds) - 1)) + DigitVal(ds[Len(ds)])

P(c) == <<"punct", c>>
K(k) == <<"key", k>>
S(text) == <<"str", text>>
N(n) == <<"num", IntToDigits(n)>>

IsPunct(t, c) == t[1] = "punct" /\ t[2] = c

DumpCell(c) ==
  <<P("{"), K("type"), S(c.type), K("order"), N(c.order), K("code"), S(c.code), P("}")>>

RECURSIVE DumpArgs(_)
DumpArgs(args) ==
  IF args = <<>> THEN <<>> ELSE <<S(Head(args))>> \o DumpArgs(Tail(args))

RECURSIVE DumpCells(_)
DumpCells(cells) ==
  IF cells = <<>> THEN <<>> ELSE DumpCell(Head(cells)) \o DumpCells(Tail(cells))

DumpTool(t) ==
  <<P("{"), K("name"), S(t.name), K("args"), P("[")>> \o DumpArgs(t.args)
    \o <<P("]"), K("cells"), P("[")>> \o DumpCells(t.cells) \o <<P("]"), P("}")>>

RECURSIVE DumpTools(_)
DumpTools(tools) ==
  IF tools = <<>> THEN <<>> ELSE DumpTool(Head(tools)) \o DumpTools(Tail(tools))

\* json.dump(config, f)
DumpConfig(cfg) ==
  <<P("{"), K("name"), S(cfg.name), K("tools"), P("[")>> \o DumpTools(cfg.tools)
    \o <<P("]"), P("}")>>

RECURSIVE ParseValue(_, _)
RECURSIVE ParseMembers(_, _, _)
RECURSIVE ParseElements(_, _, _)

\* the value that starts at token i, and the index of the token after it
ParseValue(toks, i) ==
  LET t == toks[i] IN
    IF t[1] = "str" THEN [v |-> t[2], next |-> i + 1]
    ELSE IF t[1] = "num" THEN [v |-> DigitsToInt(t[2]), next |-> i + 1]
    ELSE IF IsPunct(t, "[") THEN ParseElements(toks, i + 1, <<>>)
    ELSE ParseMembers(toks, i + 1, <<>>)

\* the elements of an array up to its closing bracket
ParseElements(toks, i, acc) ==
  IF IsPunct(toks[i], "]") THEN [v |-> acc, next |-> i + 1]
  ELSE LET e == ParseValue(toks, i) IN ParseElements(toks, e.next, Append(acc, e.v))

\* the members of an object up to its closing brace; a dict keeps the last
\* value given for a key
ParseMembers(toks, i, acc) ==
  IF IsPunct(toks[i], "}")
  THEN [v |-> [k \in {m[1] : m \in Range(acc)} |->
                 LET last == CHOOSE j \in 1..Len(acc) :
                               /\ acc[j][1] = k
                               /\ \A l \in (j + 1)..Len(acc) : acc[l][1] # k
                 IN acc[last][2]],
        next |-> i + 1]
  ELSE LET e == ParseValue(toks, i + 1)
       IN ParseMembers(toks, e.next, Append(acc, <<toks[i][2], e.v>>))

\* json.load(f)
LoadJson(toks) == ParseValue(toks, 1).v

\* ------------------------------------------------------------- the inputs
S1 == <<"s1">>
S2 == <<"s2">>
ServerNames == {S1, S2}

T1 == <<"t1">>
T2 == <<"t2">>

UrlBare == <<"e", "x", ".", "c", "o", "m">>
UrlHttps == <<"h", "t", "t", "p", "s", ":", "/", "/", "x">>
UrlFile == <<"f", "i", "l", "e", ":", "/", "/", "/", "x">>
PyCode == <<"py">>
JsCode == <<"js">>

Cell(type, order, code) == [type |-> type, order |-> order, code |-> code]

\* What the user may have in the tool dialog when pressing OK: the name field,
\* the text of the arguments field and the cells in layout order.
DialogInputs ==
  { [tool_name |-> T1, args_text |-> <<>>,
     cells |-> <<Cell(LoadPageT, 0, UrlBare), Cell(ReturnT, 1, PyCode)>>],
    [tool_name |-> T1, args_text |-> <<"a", ",", " ", "b">>,
     cells |-> <<Cell(ExecPyT, 1, PyCode), Cell(ExecJsT, 0, JsCode)>>],
    [tool_name |-> T2, args_text |-> <<"a", ",", "a">>,
     cells |-> <<Cell(ReturnT, 0, PyCode), Cell(LoadPageT, 0, UrlHttps)>>],
    [tool_name |-> T2, args_text |-> <<" ", "b", " ", ",">>,
     cells |-> <<Cell(LoadPageT, 0, UrlHttps), Cell(ExecJsT, 12, JsCode),
                 Cell(ExecPyT, 3, PyCode)>>],
    [tool_name |-> T2, args_text |-> <<>>,
     cells |-> <<Cell(ReplT, 0, <<>>)>>] }

\* The cell a user may run from the dialog with "Run Cell"
RunCellInputs ==
  { Cell(LoadPageT, 0, UrlBare), Cell(LoadPageT, 0, <<" ">>),
    Cell(LoadPageT, 0, UrlFile),
    Cell(ExecJsT, 0, JsCode), Cell(ReturnT, 0, PyCode) }

\* the argument values an external caller passes
ParamValues == {"x", "y"}

\* str(e) of what the driver or the executed code raises
NavError == <<"navigation failed">>
JsError == <<"javascript error">>
PyError == <<"python error">>
ClosedError == <<"'NoneType' object has no attribute">>

\* what the code may bind to the name result
PyResults == {None, "v1"}

\* validate_and_accept without the check for REPL cells
DialogAccepts_Always(d) == TRUE

\* ToolDialog.validate_and_accept: OK is refused while a cell is a REPL cell
DialogAccepts(d) == \A i \in 1..Len(d.cells) : d.cells[i].type # ReplT

\* MainWindow.get_tool_data_from_dialog
get_tool_data_from_dialog(d) ==
  [name |-> d.tool_name,
   args |-> ParseArgs(d.args_text),
   cells |-> SortedCells(d.cells)]

\* ---------------------------------------------------------------- state
VARIABLES
  disk,            \* servers/<name>: the directory and its config.json
  server_list,     \* the server QListWidget: items and current item
  tool_list,       \* the tool QListWidget: the item texts, in order
  current_server,  \* MainWindow.current_server (None or the loaded dict)
  mcp_server,      \* MainWindow.mcp_server with the tools registered on it
  is_server_running,
  driver,          \* SeleniumManager.driver: the one browser session
  inv,             \* the tool invocation the server thread is running
  app              \* the shutdown of the application: closeEvent and after

vars == <<disk, server_list, tool_list, current_server, mcp_server,
          is_server_running, driver, inv, app>>

NoDir == [dir |-> FALSE, file |-> FALSE, text |-> <<>>]
DirOnly == [dir |-> TRUE, file |-> FALSE, text |-> <<>>]
File(text) == [dir |-> TRUE, file |-> TRUE, text |-> text]

NoSelection == <<>>
NoConfig == [some |-> FALSE, cfg |-> [name |-> <<>>, tools |-> <<>>]]
Loaded(cfg) == [some |-> TRUE, cfg |-> cfg]
NoMcp == [some |-> FALSE, name |-> <<>>, tools |-> <<>>]

\* the application is up: no close event yet; closes records what each call
\* of SeleniumManager.close did
Running == [accepted |-> FALSE, destroyed |-> FALSE, closes |-> <<>>]

IdleInv ==
  [status |-> "idle", tool_name |-> <<>>, cells |-> <<>>, kwargs |-> <<>>,
   pc |-> 0, result |-> None, error |-> <<>>, trace |-> <<>>]

\* the tool definitions a dialog can produce
DialogTools == {get_tool_data_from_dialog(d) : d \in {x \in DialogInputs : DialogAccepts(x)}}

\* a config.json written by hand: the cells are not in order of "order"
HandWrittenTool ==
  [name |-> T1, args |-> <<>>,
   cells |-> <<Cell(ReturnT, 1, PyCode), Cell(LoadPageT, 0, UrlBare)>>]

\* The servers directory as the application may find it at start: nothing, or
\* config files of an earlier run or written by hand, and possibly a directory
\* without a config.json.
InitConfigs ==
  {[name |-> S1, tools |-> <<t>>] : t \in DialogTools \cup {HandWrittenTool}}
    \cup {[name |-> S1, tools |-> <<>>],
          [name |-> S1,
           tools |-> <<get_tool_data_from_dialog(
                         [tool_name |-> T1, args_text |-> <<>>,
                          cells |-> <<Cell(ExecJsT, 0, JsCode)>>]),
                       get_tool_data_from_dialog(
                         [tool_name |-> T2, args_text |-> <<"b">>,
                          cells |-> <<Cell(ExecPyT, 0, PyCode),
                                      Cell(ReturnT, 1, PyCode)>>])>>]}

InitDisks ==
  {[n \in ServerNames |-> IF n = S1 THEN e1 ELSE e2] :
     e1 \in {NoDir} \cup {File(DumpConfig(c)) : c \in InitConfigs},
     e2 \in {NoDir, DirOnly}}

Init ==
  /\ disk \in InitDisks
  /\ server_list = [items |-> {n \in ServerNames : disk[n].dir}, cur |-> NoSelection]
  /\ tool_list = <<>>
  /\ current_server = NoConfig
  /\ mcp_server = NoMcp
  /\ is_server_running = FALSE
  /\ driver = [open |-> TRUE, url |-> <<>>]
  /\ inv = IdleInv
  /\ app = Running

\* ------------------------------------------------------ the registry (UI)
RECURSIVE ToolNames(_)
\* [tool["name"] for tool in tools]
ToolNames(tools) ==
  IF tools = <<>> THEN <<>> ELSE <<Head(tools).name>> \o ToolNames(Tail(tools))

\* MainWindow.load_servers: one list item per directory under servers/
load_servers(d) == {n \in ServerNames : d[n].dir}

\* MainWindow.load_server, for the current item cur of the server list and the
\* disk d: the new <<tool_list, current_server>>. The tool list is cleared
\* first; current_server is replaced only when config.json exists.
load_server(cur, d, cs) ==
  IF cur # NoSelection /\ d[cur].file
  THEN LET config == LoadJson(d[cur].text)
       IN <<ToolNames(config.tools), Loaded(config)>>
  ELSE <<<<>>, cs>>

\* save_current_server that writes nothing
save_current_server_Skip(cs, d) == d

\* MainWindow.save_current_server: the disk after json.dump of cs
save_current_server(cs, d) ==
  IF cs.some
  THEN [d EXCEPT ![cs.cfg.name] = File(DumpConfig(cs.cfg))]
  ELSE d

\* MainWindow.create_server, for a non-empty name entered in the input dialog:
\* config.json is written, the server list rebuilt and the new server selected
CreateServer(name) ==
  \E d2 \in {[disk EXCEPT ![name] = File(DumpConfig([name |-> name, tools |-> <<>>]))]} :
  \E ld \in {load_server(name, d2, current_server)} :
     /\ disk' = d2
     /\ server_list' = [items |-> load_servers(d2), cur |-> name]
     /\ tool_list' = ld[1]
     /\ current_server' = ld[2]
     /\ UNCHANGED <<mcp_server, is_server_running, driver, inv, app>>

\* the user selects another item of the server list: itemSelectionChanged
\* runs load_server
SelectServer(name) ==
  /\ name \in server_list.items
  /\ name # server_list.cur
  /\ \E ld \in {load_server(name, disk, current_server)} :
        /\ server_list' = [server_list EXCEPT !.cur = name]
        /\ tool_list' = ld[1]
        /\ current_server' = ld[2]
  /\ UNCHANGED <<disk, mcp_server, is_server_running, driver, inv, app>>

\* MainWindow.add_tool with the dialog holding d. A dialog with a REPL cell
\* cannot be accepted and is cancelled.
AddTool(d) ==
  /\ current_server.some
  /\ Len(current_server.cfg.tools) < MaxTools
  /\ IF DialogAccepts(d)
     THEN \E tool_data \in {get_tool_data_from_dialog(d)} :
          \E cs \in {Loaded([current_server.cfg EXCEPT !.tools = Append(@, tool_data)])} :
             /\ current_server' = cs
             /\ disk' = save_current_server(cs, disk)
             /\ tool_list' = Append(tool_list, tool_data.name)
     ELSE UNCHANGED <<current_server, disk, tool_list>>
  /\ UNCHANGED <<server_list, mcp_server, is_server_running, driver, inv, app>>

\* the list comprehension of edit_tool: every tool named item is replaced
ReplaceNamed(tools, item, new_tool_data) ==
  [i \in 1..Len(tools) |-> IF tools[i].name = item THEN new_tool_data ELSE tools[i]]

\* MainWindow.edit_tool on a double click on item i of the tool list, the
\* dialog being accepted with content d: replace, save, reload
EditTool(i, d) ==
  /\ current_server.some
  /\ i \in 1..Len(tool_list)
  /\ IF (\E k \in 1..Len(current_server.cfg.tools) :
            current_server.cfg.tools[k].name = tool_list[i]) /\ DialogAccepts(d)
     THEN \E cs \in {Loaded([current_server.cfg EXCEPT
                       !.tools = ReplaceNamed(@, tool_list[i],
                                              get_tool_data_from_dialog(d))])} :
          \E d2 \in {save_current_server(cs, disk)} :
          \E ld \in {load_server(server_list.cur, d2, cs)} :
             /\ disk' = d2
             /\ tool_list' = ld[1]
             /\ current_server' = ld[2]
     ELSE UNCHANGED <<current_server, disk, tool_list>>
  /\ UNCHANGED <<server_list, mcp_server, is_server_running, driver, inv, app>>

\* the list comprehension of delete_tool
RemoveNamed(tools, tool_name) ==
  SelectSeqBy(tools, {t \in Range(tools) : t.name # tool_name})

\* MainWindow.delete_tool with item i of the tool list current and the
\* question answered Yes: remove, save, reload
DeleteTool(i) ==
  /\ current_server.some
  /\ i \in 1..Len(tool_list)
  /\ \E cs \in {Loaded([current_server.cfg EXCEPT
                         !.tools = RemoveNamed(@, tool_list[i])])} :
     \E d2 \in {save_current_server(cs, disk)} :
     \E ld \in {load_server(server_list.cur, d2, cs)} :
        /\ disk' = d2
        /\ tool_list' = ld[1]
        /\ current_server' = ld[2]
  /\ UNCHANGED <<server_list, mcp_server, is_server_running, driver, inv, app>>

\* ------------------------------------------------------ the tool registrar
\* the schema part of MainWindow.create_mcp_tool: properties is a dict keyed
\* by argument, required a list with one entry per element of args
input_schema(args) ==
  [type |-> "object",
   properties |-> [a \in Range(args) |->
                     [type |-> "string", description |-> <<"Parameter ">> \o a]],
   required |-> args]

\* MainWindow.create_mcp_tool: the Tool with the partial function bound to the
\* name and to the cells list of tool_data
create_mcp_tool(tool_data) ==
  [name |-> tool_data.name,
   description |-> <<"Automated tool for ">> \o tool_data.name,
   function |-> [tool_name |-> tool_data.name, cells |-> tool_data.cells],
   inputSchema |-> input_schema(tool_data.args)]

\* MainWindow.toggle_server / start_server
StartServer ==
  /\ current_server.some
  /\ ~is_server_running
  /\ IF current_server.cfg.tools = <<>>
     THEN UNCHANGED <<mcp_server, is_server_running>>
     ELSE /\ mcp_server' =
               [some |-> TRUE, name |-> current_server.cfg.name,
                tools |-> [i \in 1..Len(current_server.cfg.tools) |->
                             create_mcp_tool(current_server.cfg.tools[i])]]
          /\ is_server_running' = TRUE
  /\ UNCHANGED <<disk, server_list, tool_list, current_server, driver, inv, app>>

\* MainWindow.toggle_server / stop_server
\* stop_server letting the exception of mcp_server.stop() out
stop_server_Propagates(mcp, running, ok) ==
  IF ok
  THEN [mcp_server |-> NoMcp, is_server_running |-> FALSE, raised |-> FALSE]
  ELSE [mcp_server |-> mcp, is_server_running |-> running, raised |-> TRUE]

\* MainWindow.stop_server. The stop of the serving framework is outside the
\* program and succeeds (ok) or raises; the exception is caught in
\* stop_server itself, before mcp_server and is_server_running are reset.
stop_server(mcp, running, ok) ==
  IF ok
  THEN [mcp_server |-> NoMcp, is_server_running |-> FALSE, raised |-> FALSE]
  ELSE [mcp_server |-> mcp, is_server_running |-> running, raised |-> FALSE]

StopServer ==
  /\ current_server.some
  /\ is_server_running
  /\ \E ok \in BOOLEAN :
       \E st \in {stop_server(mcp_server, is_server_running, ok)} :
         /\ mcp_server' = st.mcp_server
         /\ is_server_running' = st.is_server_running
  /\ UNCHANGED <<disk, server_list, tool_list, current_server, driver, inv, app>>

\* ----------------------------------------------------- the session wrapper
StartsWith(s, prefix) == Len(s) >= Len(prefix) /\ SubSeq(s, 1, Len(prefix)) = prefix

HttpScheme == <<"h", "t", "t", "p", ":", "/", "/">>
HttpsScheme == <<"h", "t", "t", "p", "s", ":", "/", "/">>

\* the URL SeleniumManager.navigate_to hands to driver.get
navigate_url(url) ==
  IF ~(StartsWith(url, HttpScheme) \/ StartsWith(url, HttpsScheme))
  THEN HttpsScheme \o url
  ELSE url

Ok(result) == [ok |-> TRUE, result |-> result, err |-> <<>>]
Raises(err) == [ok |-> FALSE, result |-> None, err |-> err]

\* What a call of the session wrapper can do. The browser and the executed
\* code are outside the program: a call succeeds or raises; execute_python
\* yields whatever the code bound to result, possibly one of its args.
\* driver.get and driver.execute_script on a closed session (driver None) raise.
CallOutcomes(type, kwargs, drv) ==
  IF type = LoadPageT
  THEN IF drv.open THEN {Ok(None), Raises(NavError)} ELSE {Raises(ClosedError)}
  ELSE IF type = ExecJsT
  THEN IF drv.open THEN {Ok(None), Raises(JsError)} ELSE {Raises(ClosedError)}
  ELSE {Ok(r) : r \in PyResults \cup {kwargs[a] : a \in DOMAIN kwargs}}
         \cup {Raises(PyError)}

\* a session wrapper that closes the session when a call fails
DriverAfter_CloseOnError(drv, cell, o) ==
  IF ~o.ok
  THEN [drv EXCEPT !.open = FALSE]
  ELSE IF cell.type = LoadPageT
  THEN [drv EXCEPT !.url = navigate_url(cell.code)]
  ELSE drv

\* the session after the call
DriverAfter(drv, cell, o) ==
  IF cell.type = LoadPageT /\ o.ok
  THEN [drv EXCEPT !.url = navigate_url(cell.code)]
  ELSE drv

\* One entry of the record of the calls made on the session since the last
\* invocation began: who called ("tool": the server thread, "ui": the primary
\* thread), for which step, and whether an invocation was in progress.
Call(who, step, busy, cell, o) ==
  [who |-> who, step |-> step, busy |-> busy, type |-> cell.type,
   code |-> cell.code, ok |-> o.ok, result |-> o.result]

\* ------------------------------------------------- the step interpreter
SessionTypes == {LoadPageT, ExecJsT, ExecPyT, ReturnT}

\* named_tool_function_step with a Return Data cell that does not return
named_tool_function_step_NoHalt(iv, o) ==
  LET cell == iv.cells[iv.pc]
      tr == Append(iv.trace, Call("tool", iv.pc, TRUE, cell, o))
  IN IF ~o.ok
     THEN [iv EXCEPT !.status = "raised",
                     !.error = <<"Tool execution failed: ">> \o o.err,
                     !.trace = tr]
     ELSE [iv EXCEPT !.pc = @ + 1, !.result = o.result, !.trace = tr]

\* named_tool_function_step with the exception of a cell swallowed
named_tool_function_step_Swallow(iv, o) ==
  LET cell == iv.cells[iv.pc]
      tr == Append(iv.trace, Call("tool", iv.pc, TRUE, cell, o))
  IN IF o.ok /\ cell.type = ReturnT
     THEN [iv EXCEPT !.status = "returned", !.result = o.result, !.trace = tr]
     ELSE [iv EXCEPT !.pc = @ + 1, !.trace = tr]

\* One iteration of the loop of named_tool_function on cell iv.cells[iv.pc],
\* the session call ending as o: an exception ends the invocation with
\* Exception("Tool execution failed: " + str(e)); a Return Data cell returns
\* result.get("result"); any other cell goes on to the next one.
named_tool_function_step(iv, o) ==
  LET cell == iv.cells[iv.pc]
      tr == Append(iv.trace, Call("tool", iv.pc, TRUE, cell, o))
  IN IF ~o.ok
     THEN [iv EXCEPT !.status = "raised",
                     !.error = <<"Tool execution failed: ">> \o o.err,
                     !.trace = tr]
     ELSE IF cell.type = ReturnT
     THEN [iv EXCEPT !.status = "returned", !.result = o.result, !.trace = tr]
     ELSE [iv EXCEPT !.pc = @ + 1, !.trace = tr]

\* named_tool_function_end returning the result of the last call instead
named_tool_function_end_LastResult(iv) ==
  [iv EXCEPT !.status = "returned",
             !.result = IF iv.trace = <<>> THEN None
                        ELSE iv.trace[Len(iv.trace)].result]

\* the loop is over: return None
named_tool_function_end(iv) == [iv EXCEPT !.status = "returned", !.result = None]

\* an invocation that looks the tool up in the current configuration
InvokeStart_LateBinding(i, v) ==
  /\ is_server_running
  /\ mcp_server.some
  /\ inv.status # "running"
  /\ i \in 1..Len(current_server.cfg.tools)
  /\ inv' = [status |-> "running",
             tool_name |-> current_server.cfg.tools[i].name,
             cells |-> current_server.cfg.tools[i].cells,
             kwargs |-> [a \in Range(current_server.cfg.tools[i].args) |-> v],
             pc |-> 1, result |-> None, error |-> <<>>, trace |-> <<>>]
  /\ UNCHANGED <<disk, server_list, tool_list, current_server, mcp_server,
                 is_server_running, driver, app>>

\* The serving framework calls registered tool i with every declared argument
\* bound to v. The coroutine has no await: the server thread's event loop
\* runs one invocation at a time.
InvokeStart(i, v) ==
  /\ is_server_running
  /\ mcp_server.some
  /\ inv.status # "running"
  /\ i \in 1..Len(mcp_server.tools)
  /\ inv' = [status |-> "running",
             tool_name |-> mcp_server.tools[i].function.tool_name,
             cells |-> mcp_server.tools[i].function.cells,
             kwargs |-> [a \in DOMAIN mcp_server.tools[i].inputSchema.properties |-> v],
             pc |-> 1, result |-> None, error |-> <<>>, trace |-> <<>>]
  /\ UNCHANGED <<disk, server_list, tool_list, current_server, mcp_server,
                 is_server_running, driver, app>>

\* the server thread executes the next cell
InvokeStep ==
  /\ inv.status = "running"
  /\ inv.pc <= Len(inv.cells)
  /\ LET cell == inv.cells[inv.pc] IN
     IF cell.type \in SessionTypes
     THEN \E o \in CallOutcomes(cell.type, inv.kwargs, driver) :
            /\ inv' = named_tool_function_step(inv, o)
            /\ driver' = DriverAfter(driver, cell, o)
     ELSE /\ inv' = [inv EXCEPT !.pc = @ + 1]
          /\ UNCHANGED driver
  /\ UNCHANGED <<disk, server_list, tool_list, current_server, mcp_server,
                 is_server_running, app>>

\* the server thread leaves the loop
InvokeReturn ==
  /\ inv.status = "running"
  /\ inv.pc > Len(inv.cells)
  /\ inv' = named_tool_function_end(inv)
  /\ UNCHANGED <<disk, server_list, tool_list, current_server, mcp_server,
                 is_server_running, driver, app>>

UiCalls(trace) == Cardinality({i \in 1..Len(trace) : trace[i].who = "ui"})

\* ToolCell.run_cell on the primary thread, for the cell c of an open dialog.
\* It makes one call on the shared session, whatever the server thread is
\* doing; an exception ends in a message box.
RunCell(c) ==
  /\ Strip(c.code) # <<>>
  /\ inv.status # "idle" => UiCalls(inv.trace) < MaxUiRuns
  /\ LET cell == [c EXCEPT !.code = Strip(c.code)] IN
     \E o \in CallOutcomes(cell.type, <<>>, driver) :
       /\ driver' = DriverAfter(driver, cell, o)
       /\ inv' = IF inv.status # "idle"
                 THEN [inv EXCEPT !.trace =
                         Append(@, Call("ui", inv.pc, inv.status = "running", cell, o))]
                 ELSE inv
  /\ UNCHANGED <<disk, server_list, tool_list, current_server, mcp_server,
                 is_server_running, app>>

\* --------------------------------------------------------------- shutdown
\* close that keeps the driver after quitting it
close_KeepsDriver(drv, quit_ok) ==
  IF drv.open
  THEN IF quit_ok
       THEN [driver |-> drv, did |-> "quit", raised |-> FALSE]
       ELSE [driver |-> drv, did |-> "quit failed", raised |-> TRUE]
  ELSE [driver |-> drv, did |-> "nothing", raised |-> FALSE]

\* SeleniumManager.close: with a driver, driver.quit() and then driver = None;
\* quit is the browser's and ends the session (quit_ok) or raises, and then
\* driver is not reset. Without a driver nothing is done.
close(drv, quit_ok) ==
  IF drv.open
  THEN IF quit_ok
       THEN [driver |-> [open |-> FALSE, url |-> <<>>], did |-> "quit",
             raised |-> FALSE]
       ELSE [driver |-> drv, did |-> "quit failed", raised |-> TRUE]
  ELSE [driver |-> drv, did |-> "nothing", raised |-> FALSE]

\* MainWindow.closeEvent: stop the server if it is running, close the
\* session, accept the event; an exception on the way is printed and the
\* event accepted.
closeEvent(mcp, running, drv, stop_ok, quit_ok) ==
  LET st == IF running
            THEN stop_server(mcp, running, stop_ok)
            ELSE [mcp_server |-> mcp, is_server_running |-> running,
                  raised |-> FALSE]
  IN IF st.raised
     THEN [mcp_server |-> st.mcp_server, is_server_running |-> st.is_server_running,
           driver |-> drv, closes |-> <<>>, accepted |-> TRUE]
     ELSE LET c == close(drv, quit_ok)
          IN [mcp_server |-> st.mcp_server,
              is_server_running |-> st.is_server_running,
              driver |-> c.driver, closes |-> <<c.did>>, accepted |-> TRUE]

\* the user closes the main window
CloseEvent(stop_ok, quit_ok) ==
  /\ ~app.accepted
  /\ \E r \in {closeEvent(mcp_server, is_server_running, driver, stop_ok, quit_ok)} :
       /\ mcp_server' = r.mcp_server
       /\ is_server_running' = r.is_server_running
       /\ driver' = r.driver
       /\ app' = [app EXCEPT !.accepted = r.accepted, !.closes = @ \o r.closes]
  /\ UNCHANGED <<disk, server_list, tool_list, current_server, inv>>

\* SeleniumManager.__del__, when the window is gone and the interpreter
\* drops the manager: close() once more; an exception in __del__ is ignored
Destructor(quit_ok) ==
  /\ app.accepted
  /\ ~app.destroyed
  /\ \E c \in {close(driver, quit_ok)} :
       /\ driver' = c.driver
       /\ app' = [app EXCEPT !.destroyed = TRUE, !.closes = Append(@, c.did)]
  /\ UNCHANGED <<disk, server_list, tool_list, current_server, mcp_server,
                 is_server_running, inv>>

\* ------------------------------------------------------- specifications
\* the registry operations, on the primary thread
NextRegistry ==
  \/ \E name \in ServerNames : CreateServer(name)
  \/ \E name \in ServerNames : SelectServer(name)
  \/ \E d \in DialogInputs : AddTool(d)
  \/ \E i \in 1..MaxTools, d \in DialogInputs : EditTool(i, d)
  \/ \E i \in 1..MaxTools : DeleteTool(i)

SpecRegistry == Init /\ [][NextRegistry]_vars

\* serving: a configuration found on disk is selected, the server started and
\* its tools invoked while the user runs cells
NextExec ==
  \/ \E name \in ServerNames : SelectServer(name)
  \/ StartServer
  \/ StopServer
  \/ \E i \in 1..MaxTools, v \in ParamValues : InvokeStart(i, v)
  \/ InvokeStep
  \/ InvokeReturn
  \/ \E c \in RunCellInputs : RunCell(c)

SpecExec == Init /\ [][NextExec]_vars

\* the dialog contents used while a server runs
SnapshotDialogs == {d \in DialogInputs : d.tool_name = T1}

\* the application starts on a servers directory with one server
InitSnapshot ==
  /\ Init
  /\ disk[S2] = NoDir
  /\ disk[S1].file
  /\ Len(LoadJson(disk[S1].text).tools) = 1

\* the tools of a server are changed while it runs and is called
NextSnapshot ==
  \/ \E name \in ServerNames : SelectServer(name)
  \/ \E d \in SnapshotDialogs : AddTool(d)
  \/ \E i \in 1..MaxTools, d \in SnapshotDialogs : EditTool(i, d)
  \/ \E i \in 1..MaxTools : DeleteTool(i)
  \/ StartServer
  \/ StopServer
  \/ \E i \in 1..MaxTools, v \in ParamValues : InvokeStart(i, v)
  \/ InvokeStep
  \/ InvokeReturn

SpecSnapshot == InitSnapshot /\ [][NextSnapshot]_vars

\* the life of the application up to its end: serving as in NextExec until
\* the window is closed, the server thread going on until the process exits
NextShutdown ==
  \/ ~app.accepted /\ \E name \in ServerNames : SelectServer(name)
  \/ ~app.accepted /\ StartServer
  \/ ~app.accepted /\ StopServer
  \/ \E i \in 1..MaxTools, v \in ParamValues : InvokeStart(i, v)
  \/ InvokeStep
  \/ InvokeReturn
  \/ ~app.accepted /\ \E c \in RunCellInputs : RunCell(c)
  \/ \E stop_ok \in BOOLEAN, quit_ok \in BOOLEAN : CloseEvent(stop_ok, quit_ok)
  \/ \E quit_ok \in BOOLEAN : Destructor(quit_ok)

SpecShutdown == Init /\ [][NextShutdown]_vars

Next ==
  \/ \E name \in ServerNames : CreateServer(name)
  \/ \E name \in ServerNames : SelectServer(name)
  \/ \E d \in DialogInputs : AddTool(d)
  \/ \E i \in 1..MaxTools, d \in DialogInputs : EditTool(i, d)
  \/ \E i \in 1..MaxTools : DeleteTool(i)
  \/ StartServer
  \/ StopServer
  \/ \E i \in 1..MaxTools, v \in ParamValues : InvokeStart(i, v)
  \/ InvokeStep
  \/ InvokeReturn
  \/ \E c \in RunCellInputs : RunCell(c)
  \/ \E stop_ok \in BOOLEAN, quit_ok \in BOOLEAN : CloseEvent(stop_ok, quit_ok)
  \/ \E quit_ok \in BOOLEAN : Destructor(quit_ok)

Spec == Init /\ [][Next]_vars

\* ================================================================ claims
\* the cells the invocation has executed, in the order of execution
ToolCalls(trace) == SelectSeqBy(trace, {e \in Range(trace) : e.who = "tool"})

ExecutedCells(iv) ==
  [i \in 1..Len(ToolCalls(iv.trace)) |-> iv.cells[ToolCalls(iv.trace)[i].step]]

ExecutedSteps(iv) ==
  [i \in 1..Len(ToolCalls(iv.trace)) |-> ToolCalls(iv.trace)[i].step]

IsPrefix(s, t) == Len(s) <= Len(t) /\ SubSeq(t, 1, Len(s)) = s

HasReturnData(cells) == \E i \in 1..Len(cells) : cells[i].type = ReturnT

\* C1: whatever the order of the cells handed to the tool function, the
\* steps it has executed are the first steps of the list sorted by order.
C1_ExecutesInAscendingOrder ==
  inv.status # "idle" => IsPrefix(ExecutedCells(inv), SortedCells(inv.cells))

\* C2: once a Return Data step has run, the invocation has returned, its
\* result is the result field that step produced, and the invocation has
\* executed no step after it.
C2_ReturnDataHalts ==
  \A i \in 1..Len(inv.trace) :
    (inv.trace[i].who = "tool" /\ inv.trace[i].type = ReturnT /\ inv.trace[i].ok)
      => /\ inv.status = "returned"
         /\ inv.result = inv.trace[i].result
         /\ inv.pc = inv.trace[i].step
         /\ \A j \in (i + 1)..Len(inv.trace) : inv.trace[j].who # "tool"

\* a Return Data step has returned a value and left a later step unexecuted
C2_Witness ==
  /\ inv.status = "returned"
  /\ inv.result # None
  /\ inv.pc < Len(inv.cells)
  /\ inv.cells[inv.pc].type = ReturnT
  /\ \E i \in 1..Len(inv.trace) : inv.trace[i].who = "tool" /\ inv.trace[i].type = ReturnT

\* C3: an invocation of a tool without Return Data step that has returned has
\* executed every step, once and in sequence, and its result is None.
C3_NoReturnDataGivesNull ==
  (inv.status = "returned" /\ ~HasReturnData(inv.cells))
    => /\ inv.result = None
       /\ ExecutedSteps(inv) = [i \in 1..Len(inv.cells) |-> i]
       /\ \A i \in 1..Len(inv.trace) : inv.trace[i].who = "tool" => inv.trace[i].ok

\* a three-step tool without Return Data has returned, called with a
\* parameter, one of its Execute Python steps having produced a result
C3_Witness ==
  /\ inv.status = "returned"
  /\ ~HasReturnData(inv.cells)
  /\ Len(inv.cells) = 3
  /\ DOMAIN inv.kwargs # {}
  /\ \E i \in 1..Len(inv.trace) :
       inv.trace[i].who = "tool" /\ inv.trace[i].type = ExecPyT
         /\ inv.trace[i].result # None

\* the last successful navigation recorded in the trace is where the
\* session is
NavigationsInPlace(trace, drv) ==
  LET navs == {i \in 1..Len(trace) : trace[i].type = LoadPageT /\ trace[i].ok}
  IN navs # {} =>
       drv.url = navigate_url(trace[CHOOSE i \in navs : \A j \in navs : j <= i].code)

\* C4: a failed step ends the invocation in an error at that step: it is the
\* last step the invocation executed and was executed once, the steps before it
\* are the ones before it in the list, and the navigations made are in place.
C4_FailureStopsAtStep ==
  /\ \A i \in 1..Len(inv.trace) :
       (inv.trace[i].who = "tool" /\ ~inv.trace[i].ok)
         => /\ inv.status = "raised"
            /\ inv.pc = inv.trace[i].step
            /\ \A j \in (i + 1)..Len(inv.trace) : inv.trace[j].who # "tool"
  /\ inv.status = "raised"
       => /\ ExecutedSteps(inv) = [i \in 1..inv.pc |-> i]
          /\ inv.error # <<>>
          /\ NavigationsInPlace(inv.trace, driver)

\* the third step failed after the first one had navigated
C4_Witness ==
  /\ inv.status = "raised"
  /\ inv.pc = 3
  /\ inv.cells[1].type = LoadPageT
  /\ driver.url = navigate_url(inv.cells[1].code)
  /\ Len(ToolCalls(inv.trace)) = 3

Contains(s, sub) ==
  \E i \in 0..(Len(s) - Len(sub)) : SubSeq(s, i + 1, i + Len(sub)) = sub

\* C5: the error of a failed invocation carries the name of its tool.
C5_ErrorNamesTool ==
  inv.status = "raised" => Contains(inv.error, inv.tool_name)

\* C6: no call is made on the session from the primary thread while a tool
\* invocation is in progress.
C6_NoInterleaving ==
  \A i \in 1..Len(inv.trace) : inv.trace[i].who = "ui" => ~inv.trace[i].busy

\* C7: the schema of every registered tool has as many required entries as
\* properties, the properties being those named in required, of type string.
C7_SchemaMatchesArgs ==
  \A i \in 1..Len(mcp_server.tools) :
    LET schema == mcp_server.tools[i].inputSchema IN
      /\ DOMAIN schema.properties = Range(schema.required)
      /\ \A a \in DOMAIN schema.properties : schema.properties[a].type = "string"
      /\ Len(schema.required) = Cardinality(DOMAIN schema.properties)

\* C8: create_server with the name of an existing configuration leaves that
\* configuration's file as it is.
C8_CreateKeepsExisting ==
  [][\A n \in ServerNames : (disk[n].file /\ CreateServer(n)) => disk'[n] = disk[n]]_vars

\* C9: saving the current configuration and loading it by its name gives the
\* same configuration (tools in sequence, their args and their cells with
\* order, type and code) and the tool list of its tool names.
C9_SaveLoadRoundTrip ==
  current_server.some =>
    LET saved == save_current_server(current_server, disk)
        ld == load_server(current_server.cfg.name, saved, NoConfig)
    IN /\ ld[2] = current_server
       /\ ld[1] = ToolNames(current_server.cfg.tools)

\* a configuration of two tools, one with arguments and a cell of a
\* two-digit order, is the current one and is what its file holds
C9_Witness ==
  /\ current_server.some
  /\ Len(current_server.cfg.tools) = 2
  /\ \E i \in 1..2 :
       /\ current_server.cfg.tools[i].args # <<>>
       /\ \E k \in 1..Len(current_server.cfg.tools[i].cells) :
            current_server.cfg.tools[i].cells[k].order >= 10
  /\ disk[current_server.cfg.name] = File(DumpConfig(current_server.cfg))
  /\ LoadJson(disk[current_server.cfg.name].text) = current_server.cfg

\* C10: no two tools of the current configuration have the same name.
C10_ToolNamesUnique ==
  \A i \in 1..Len(current_server.cfg.tools) :
    \A j \in 1..Len(current_server.cfg.tools) :
      i # j => current_server.cfg.tools[i].name # current_server.cfg.tools[j].name

\* C11: the file of the current configuration holds the current configuration:
\* what add_tool, edit_tool and delete_tool changed in memory is on disk when
\* they return.
C11_MutationsArePersisted ==
  current_server.some =>
    /\ disk[current_server.cfg.name].file
    /\ LoadJson(disk[current_server.cfg.name].text) = current_server.cfg

\* the second server, which has no file until it is created, holds two tools
\* in memory and on disk
C11_Witness ==
  /\ current_server.some
  /\ current_server.cfg.name = S2
  /\ Len(current_server.cfg.tools) = 2
  /\ disk[S2].file
  /\ Len(LoadJson(disk[S2].text).tools) = 2

PersistedKinds == {LoadPageT, ExecPyT, ExecJsT, ReturnT}

AllKindsIn(cfg, kinds) ==
  \A i \in 1..Len(cfg.tools) :
    \A k \in 1..Len(cfg.tools[i].cells) : cfg.tools[i].cells[k].type \in kinds

\* C12: no cell of a tool of the current configuration or of a stored
\* configuration is a Python REPL cell.
C12_NoReplPersisted ==
  /\ AllKindsIn(current_server.cfg, PersistedKinds)
  /\ \A n \in ServerNames :
       disk[n].file => AllKindsIn(LoadJson(disk[n].text), PersistedKinds)

\* tools accepted by the dialog have been stored for the second server
C12_Witness ==
  /\ disk[S2].file
  /\ Len(LoadJson(disk[S2].text).tools) = 2
  /\ \E i \in 1..2 : Len(LoadJson(disk[S2].text).tools[i].cells) = 3

\* C17: a tool mutation is stored for the server selected in the server list
\* and for no other: a selection whose config.json could not be loaded does
\* not leave the current configuration on the server loaded before.
C17_MutationGoesToSelected ==
  [][((\E d \in DialogInputs : AddTool(d))
        \/ (\E i \in 1..MaxTools : \E d \in DialogInputs : EditTool(i, d))
        \/ (\E i \in 1..MaxTools : DeleteTool(i)))
       => \A n \in ServerNames : disk'[n] # disk[n] => n = server_list.cur]_vars

\* the entries of two tool sequences of equal length that differ
ChangedEntries(old, new) == {k \in 1..Len(old) : new[k] # old[k]}

\* old without its k-th entry
WithoutEntry(old, k) == SubSeq(old, 1, k - 1) \o SubSeq(old, k + 1, Len(old))

\* C19: an accepted edit changes at most the edited entry and keeps the number
\* of tools; a delete removes exactly one entry and keeps the others in order.
C19_EditDeleteFrame ==
  [][/\ \A i \in 1..MaxTools : \A d \in DialogInputs :
          EditTool(i, d) =>
            /\ Len(current_server'.cfg.tools) = Len(current_server.cfg.tools)
            /\ Cardinality(ChangedEntries(current_server.cfg.tools,
                                          current_server'.cfg.tools)) <= 1
     /\ \A i \in 1..MaxTools :
          DeleteTool(i) =>
            \E k \in 1..Len(current_server.cfg.tools) :
              current_server'.cfg.tools = WithoutEntry(current_server.cfg.tools, k)
    ]_vars

\* the positions of url at which "://" follows a scheme name
SchemeEnds(url) ==
  {i \in 2..(Len(url) - 2) :
     /\ SubSeq(url, i, i + 2) = <<":", "/", "/">>
     /\ \A j \in 1..(i - 1) : url[j] \notin {":", "/", ".", " "}}

HasScheme(url) == SchemeEnds(url) # {}

\* url without its scheme
AfterScheme(url) ==
  LET i == CHOOSE k \in SchemeEnds(url) : TRUE IN SubSeq(url, i + 3, Len(url))

\* C18: the URL the session has been sent to carries one scheme, not a scheme
\* put in front of another, and normalising it again leaves it as it is.
C18_NoSecondScheme ==
  driver.url # <<>> =>
    /\ HasScheme(driver.url)
    /\ ~HasScheme(AfterScheme(driver.url))
    /\ navigate_url(driver.url) = driver.url

\* C14: as long as the window has not been closed the session is open,
\* whatever servers were started and stopped, cells run and tools invoked,
\* failing ones included.
C14_SessionOpenUntilShutdown ==
  ~app.accepted => driver.open

\* the server has been stopped after an invocation failed, the user has run a
\* cell meanwhile, and the session is open where it was sent
C14_Witness ==
  /\ ~app.accepted
  /\ ~is_server_running
  /\ mcp_server = NoMcp
  /\ inv.status = "raised"
  /\ UiCalls(inv.trace) > 0
  /\ driver.open
  /\ driver.url # <<>>

\* C15: a close event that has been handled has been accepted and has called
\* close() on the session; and however the stop of the server and the quit of
\* the driver end, the handler of a close event arriving now calls close()
\* and accepts the event.
C15_ShutdownReachesClose ==
  /\ app.accepted => app.closes # <<>>
  /\ ~app.accepted =>
       \A stop_ok \in BOOLEAN, quit_ok \in BOOLEAN :
         LET r == closeEvent(mcp_server, is_server_running, driver, stop_ok, quit_ok)
         IN r.accepted /\ r.closes # <<>>

\* the window was closed while the server ran, stopping the server failed, and
\* the session has been closed all the same
C15_Witness ==
  /\ app.accepted
  /\ is_server_running
  /\ mcp_server.some
  /\ app.closes = <<"quit">>
  /\ ~driver.open

\* C16: after a call of close() that quit the driver every later call does
\* nothing, so that the driver is quit at most once; and closing a closed
\* session, however the quit would end, neither fails nor changes anything.
C16_CloseIdempotent ==
  /\ \A i \in 1..Len(app.closes) : \A j \in (i + 1)..Len(app.closes) :
       app.closes[i] = "quit" => app.closes[j] = "nothing"
  /\ Cardinality({i \in 1..Len(app.closes) : app.closes[i] = "quit"}) <= 1
  /\ \A quit_ok \in BOOLEAN :
       LET once == close(driver, TRUE)
       IN close(once.driver, quit_ok) =
            [driver |-> once.driver, did |-> "nothing", raised |-> FALSE]

\* the destructor has called close() after the close event had closed the
\* session, and did nothing
C16_Witness ==
  /\ app.destroyed
  /\ app.closes = <<"quit", "nothing">>
  /\ ~driver.open

\* C13: the tools registered when the server starts are those of the current
\* configuration at that moment; while the server runs, whatever is added,
\* edited or deleted, the registered tools stay as they are, and an invocation
\* executes the cells of a registered tool.
C13_RunningServerKeepsSnapshot ==
  [][/\ (~is_server_running /\ is_server_running')
          => mcp_server'.tools =
               [i \in 1..Len(current_server.cfg.tools) |->
                  create_mcp_tool(current_server.cfg.tools[i])]
     /\ (is_server_running /\ is_server_running') => mcp_server' = mcp_server
     /\ (inv.status # "running" /\ inv'.status = "running")
          => \E i \in 1..Len(mcp_server.tools) :
               /\ inv'.tool_name = mcp_server.tools[i].name
               /\ inv'.cells = mcp_server.tools[i].function.cells
    ]_vars

\* the running server executes a tool with cells that no tool of the current
\* configuration has any more, the configuration now holding another number
\* of tools than are registered
C13_Witness ==
  /\ is_server_running
  /\ inv.status = "running"
  /\ inv.pc > 1
  /\ \E i \in 1..Len(mcp_server.tools) :
       /\ mcp_server.tools[i].name = inv.tool_name
       /\ mcp_server.tools[i].function.cells = inv.cells
  /\ \A k \in 1..Len(current_server.cfg.tools) :
       current_server.cfg.tools[k].cells # inv.cells
  /\ Len(current_server.cfg.tools) # Len(mcp_server.tools)

====
